---- MODULE Spec2Model ----
(***************************************************************************)
(* go-find-liquor: the multi-user search runner (internal/runner), its     *)
(* notification manager (internal/notification) and the command that       *)
(* drives them (cmd/go-find-liquor).                                       *)
(*                                                                         *)
(* Goroutines are modelled as processes with a program counter; a channel  *)
(* is its buffer (a sequence or a token count) or, for a channel that is   *)
(* only ever closed, "open"/"closed".  A select with several ready cases   *)
(* is a nondeterministic choice among them, as in Go.                      *)
(***************************************************************************)
EXTENDS Integers, Sequences, FiniteSets, TLC

(***************************************************************************)
(* Bounds of the model.                                                    *)
(***************************************************************************)
MaxTicks == 1        \* ticks each user runner's ticker delivers
MaxStopCalls == 2    \* calls of SearchRunner.Stop the environment makes
MaxResults == 1      \* items one successful SearchItem call returns
Quantum == 15        \* largest step by which the clock advances
MaxBatch == 3        \* items in the batch of a direct call of NotifyFoundItems

(***************************************************************************)
(* Program constants.                                                      *)
(***************************************************************************)
ShutdownTimeout == 30   \* time.After(30 * time.Second) in SearchRunner.Start

Nil == "nil"
CtxErr == "context canceled"
ErrTimeout == "timeout waiting for user runners to complete"
ErrNoItems(name) == "user '" \o name \o "' has no items to search for"
ErrNoZipcode(name) == "user '" \o name \o "' has no zipcode configured"
ErrNoUsers == "no users configured"
ErrNotifier == "failed to create notification manager"
ErrSend == "failed to send notification"

\* fmt.Errorf("user '%s': %w", name, err)
WrapUser(name, err) == "user '" \o name \o "': " \o err

Min(a, b) == IF a <= b THEN a ELSE b

RECURSIVE Flatten(_)
Flatten(ss) == IF ss = <<>> THEN <<>> ELSE Head(ss) \o Flatten(Tail(ss))

\* strings.Builder: the strings of ss written one after the other
RECURSIVE Join(_)
Join(ss) == IF ss = <<>> THEN "" ELSE Head(ss) \o Join(Tail(ss))

(***************************************************************************)
(* Configuration (pkg/config): the values the runner is built from.        *)
(***************************************************************************)
Names == {"alice", "bob"}
Terms == {"t1", "t2"}
Zip == "97201"

\* a NotificationConfig; up tells whether the service behind it is reachable
\* (it is no field of the configuration: the program learns it by sending)
Gotify(condense, up) ==
    [type |-> "gotify", hasToken |-> TRUE, condense |-> condense, up |-> up]
Slack(condense, up) ==
    [type |-> "slack", hasToken |-> TRUE, condense |-> condense, up |-> up]

UserConfig(name, items, zipcode, notifications) ==
    [name |-> name, items |-> items, zipcode |-> zipcode,
     notifications |-> notifications]

\* the user configurations drawn
Alice == UserConfig("alice", <<"t1", "t2">>, Zip, <<Gotify(FALSE, TRUE)>>)
Alice1 == UserConfig("alice", <<"t2">>, Zip, <<Gotify(FALSE, FALSE)>>)
Bob == UserConfig("bob", <<"t1">>, Zip, <<Gotify(TRUE, FALSE), Slack(FALSE, TRUE)>>)
NoItems == UserConfig("alice", <<>>, Zip, <<>>)
NoZipcode == UserConfig("bob", <<"t1">>, "", <<Gotify(FALSE, TRUE)>>)

\* the cfg.Users lists drawn: none, one user, two users, one name twice
Configs ==
    { <<>>, <<Alice>>, <<Bob>>, <<NoItems>>, <<NoZipcode>>,
      <<Alice1, Bob>>, <<NoItems, NoZipcode>>, <<NoItems, Bob>>, <<Alice1, NoZipcode>>,
      <<Alice, NoItems>>, <<Alice, Alice1>> }

\* the ticks drawn for each runner of a configuration: tickers fire in the
\* configurations of one user
TicksFor(users) == [n \in Names |-> IF Len(users) = 1 THEN MaxTicks ELSE 0]

\* Config.Interval, in hours, and Config.Distance when neither the environment
\* nor the file gives them: envDefault:"12h" and 12 * time.Hour,
\* envDefault:"10" and 10
DefaultInterval == 12
DefaultDistance == 10

\* time.ParseDuration, strconv.Atoi and strconv.ParseBool on the texts drawn
ParseDuration(text) ==
    CASE text = "6h" -> 6 [] text = "12h" -> 12 [] text = "24h" -> 24
Atoi(text) ==
    CASE text = "5" -> 5 [] text = "10" -> 10 [] text = "15" -> 15
ParseBool(text) == text = "true"

\* the environment maps GFL_INTERVAL, GFL_VERBOSE and GFL_DISTANCE to a text,
\* the empty text for a variable that is not set
NoEnv == [interval |-> "", verbose |-> "", distance |-> ""]
\* a Config no file has written to: the zero value of every field
NoYaml == [interval |-> 0, verbose |-> FALSE, distance |-> 0]

\* a field tagged env:"..." envDefault:"...": the variable's text, or the
\* default's when the variable is not set
EnvOrDefault(text, default) == IF text = "" THEN default ELSE text

\* env.Parse(&config) on the tags of Config
envParse(e) ==
    [interval |-> ParseDuration(EnvOrDefault(e.interval, "12h")),
     verbose |-> ParseBool(EnvOrDefault(e.verbose, "false")),
     distance |-> Atoi(EnvOrDefault(e.distance, "10"))]

\* mergeConfigs: the file's values, overridden by the non-zero values of the
\* environment's, then the defaults for what is still zero
mergeConfigs(yamlConfig, envConfig) ==
    LET merged ==
            [interval |-> IF envConfig.interval # 0 THEN envConfig.interval
                          ELSE yamlConfig.interval,
             verbose |-> IF envConfig.verbose THEN envConfig.verbose
                         ELSE yamlConfig.verbose,
             distance |-> IF envConfig.distance # 0 THEN envConfig.distance
                          ELSE yamlConfig.distance]
    IN  [merged EXCEPT
            !.interval = IF merged.interval = 0 THEN DefaultInterval ELSE @,
            !.distance = IF merged.distance = 0 THEN DefaultDistance ELSE @]

\* GetConfig: env.Parse, loadYAMLConfig, mergeConfigs
GetConfig(e, yamlConfig) == mergeConfigs(yamlConfig, envParse(e))

(***************************************************************************)
(* Notification manager (internal/notification).                           *)
(* A notifier is a record [kind, sinks]: sinks are the positions, in the   *)
(* user's notification list, of the services it sends to.  A gotify        *)
(* notifier has one; the nikoksr notifier has every non-gotify service.    *)
(***************************************************************************)
NikoksrTypes == {"slack", "telegram", "discord", "pushover", "pushbullet"}

\* case by case of the switch: does this notification config build?
NotificationOK(nc) == nc.type \in ({"gotify"} \cup NikoksrTypes) /\ nc.hasToken

\* a variant that condenses as soon as any of the configurations asks for it
NewNotificationManagerAnyCondense(ncs) ==
    LET gotifys == SelectSeq([i \in 1..Len(ncs) |-> i], LAMBDA i : ncs[i].type = "gotify")
        others == SelectSeq([i \in 1..Len(ncs) |-> i], LAMBDA i : ncs[i].type \in NikoksrTypes)
    IN  IF \E i \in 1..Len(ncs) : ~NotificationOK(ncs[i])
        THEN [err |-> ErrNotifier, notifiers |-> <<>>, condense |-> FALSE]
        ELSE [err |-> Nil,
              notifiers |->
                  [k \in 1..Len(gotifys) |-> [kind |-> "gotify", sinks |-> <<gotifys[k]>>]]
                  \o (IF others # <<>>
                      THEN <<[kind |-> "nikoksr", sinks |-> others]>>
                      ELSE <<>>),
              condense |-> \E i \in 1..Len(ncs) : ncs[i].condense]

NewNotificationManager(ncs) ==
    LET gotifys == SelectSeq([i \in 1..Len(ncs) |-> i], LAMBDA i : ncs[i].type = "gotify")
        others == SelectSeq([i \in 1..Len(ncs) |-> i], LAMBDA i : ncs[i].type \in NikoksrTypes)
    IN  IF \E i \in 1..Len(ncs) : ~NotificationOK(ncs[i])
        THEN [err |-> ErrNotifier, notifiers |-> <<>>, condense |-> FALSE]
        ELSE [err |-> Nil,
              notifiers |->
                  [k \in 1..Len(gotifys) |-> [kind |-> "gotify", sinks |-> <<gotifys[k]>>]]
                  \o (IF others # <<>>
                      THEN <<[kind |-> "nikoksr", sinks |-> others]>>
                      ELSE <<>>),
              condense |-> IF Len(ncs) > 0 THEN ncs[1].condense ELSE FALSE]

\* every sink the manager's notifiers reach
SinksOf(m) == UNION { { m.notifiers[k].sinks[j] : j \in 1..Len(m.notifiers[k].sinks) }
                      : k \in 1..Len(m.notifiers) }

\* the verbs of time.Format: 01, 02, 15, 04, 05 are two digits wide and 2006
\* four, padded with zeros
Pad2(k) == IF k < 10 THEN "0" \o ToString(k) ELSE ToString(k)
Pad4(k) == IF k < 100 THEN "00" \o Pad2(k)
           ELSE IF k < 1000 THEN "0" \o ToString(k) ELSE ToString(k)

\* item.Date.Format("2006-01-02") and item.Date.Format("15:04:05")
FormatDate(t) == Pad4(t.year) \o "-" \o Pad2(t.month) \o "-" \o Pad2(t.day)
FormatTime(t) == Pad2(t.hour) \o ":" \o Pad2(t.minute) \o ":" \o Pad2(t.second)

\* a variant of NotifyFound that leaves the price out
FoundMessageNoPrice(item) ==
    "Found " \o item.name \o " at " \o item.store \o " on " \o FormatDate(item.date)
    \o " at " \o FormatTime(item.date)

FoundSubject(item) == "GFL - Found " \o item.name \o "!"
FoundMessage(item) ==
    "Found " \o item.name \o " at " \o item.store \o " on " \o FormatDate(item.date)
    \o " at " \o FormatTime(item.date) \o " for " \o item.price

\* the single-item branch of sendCondensedNotification, which formats the
\* item itself
SingleSubject(item) == "GFL - Found " \o item.name \o "!"
\* a variant of the single-item branch that leaves the time of day out
SingleMessageNoTime(item) ==
    "Found " \o item.name \o " at " \o item.store \o " on " \o FormatDate(item.date)
    \o " for " \o item.price
SingleMessage(item) ==
    "Found " \o item.name \o " at " \o item.store \o " on " \o FormatDate(item.date)
    \o " at " \o FormatTime(item.date) \o " for " \o item.price

CondensedSubject(items) == "GFL - Found " \o ToString(Len(items)) \o " items!"
CondensedLine(i, item) ==
    ToString(i) \o ". " \o item.name \o " at " \o item.store \o " for "
    \o item.price \o "\n"
\* a variant that takes the timestamp from the last item
CondensedMessageLastStamp(items) ==
    "Found " \o ToString(Len(items)) \o " liquor items:\n\n"
    \o Join([i \in 1..Len(items) |-> CondensedLine(i, items[i])])
    \o "\nSearch completed on " \o FormatDate(items[Len(items)].date) \o " at "
    \o FormatTime(items[Len(items)].date)
CondensedMessage(items) ==
    "Found " \o ToString(Len(items)) \o " liquor items:\n\n"
    \o Join([i \in 1..Len(items) |-> CondensedLine(i, items[i])])
    \o "\nSearch completed on " \o FormatDate(items[1].date) \o " at "
    \o FormatTime(items[1].date)

HeartbeatSubject == "GFL - Heartbeat"
HeartbeatMessage == "GFL is still running and searching"

\* Notifier.Notify on one notifier: message number n of the call goes to each
\* of the notifier's services; failing is the set of <<n, sink>> sends that fail
NotifierSends(nf, n, subject, message, failing) ==
    [j \in 1..Len(nf.sinks) |->
        [sink |-> nf.sinks[j], subject |-> subject, message |-> message,
         ok |-> <<n, nf.sinks[j]>> \notin failing]]
NotifierErr(nf, n, failing) ==
    IF \E j \in 1..Len(nf.sinks) : <<n, nf.sinks[j]>> \in failing
    THEN ErrSend ELSE Nil

\* a variant in which every iteration assigns its result, so a send that
\* succeeds clears the error of an earlier one
LastResultOf(errs) == IF errs = <<>> THEN Nil ELSE errs[Len(errs)]

\* the last non-nil error of a list of errors: var lastErr error; ... lastErr = err
RECURSIVE LastErrOf(_)
LastErrOf(errs) ==
    IF errs = <<>> THEN Nil
    ELSE IF errs[Len(errs)] # Nil THEN errs[Len(errs)]
    ELSE LastErrOf(SubSeq(errs, 1, Len(errs) - 1))

\* a variant of the loop that returns at the first notifier that fails
NotifyAllStopsAtFailure(m, n, subject, message, failing) ==
    LET bad == { k \in 1..Len(m.notifiers) : NotifierErr(m.notifiers[k], n, failing) # Nil }
        last == IF bad = {} THEN Len(m.notifiers)
                ELSE CHOOSE k \in bad : \A j \in bad : k <= j
    IN  [sent |-> Flatten([k \in 1..last |->
                              NotifierSends(m.notifiers[k], n, subject, message, failing)]),
         err |-> LastErrOf([k \in 1..last |->
                              NotifierErr(m.notifiers[k], n, failing)])]

\* for _, notifier := range m.notifiers { notifier.Notify(...) }
NotifyAll(m, n, subject, message, failing) ==
    [sent |-> Flatten([k \in 1..Len(m.notifiers) |->
                          NotifierSends(m.notifiers[k], n, subject, message, failing)]),
     err |-> LastErrOf([k \in 1..Len(m.notifiers) |->
                          NotifierErr(m.notifiers[k], n, failing)])]

NotifyFound(m, n, item, failing) ==
    NotifyAll(m, n, FoundSubject(item), FoundMessage(item), failing)

sendCondensedNotification(m, items, failing) ==
    IF Len(items) = 0 THEN [sent |-> <<>>, err |-> Nil]
    ELSE IF Len(items) = 1
         THEN NotifyAll(m, 1, SingleSubject(items[1]), SingleMessage(items[1]), failing)
         ELSE NotifyAll(m, 1, CondensedSubject(items), CondensedMessage(items), failing)

\* a variant without the check for an empty list, which announces the count
NotifyFoundItemsUnguarded(m, items, failing) ==
    NotifyAll(m, 1, CondensedSubject(items), CondensedSubject(items), failing)

NotifyFoundItems(m, items, failing) ==
    IF Len(items) = 0 THEN [sent |-> <<>>, err |-> Nil]
    ELSE IF m.condense THEN sendCondensedNotification(m, items, failing)
    ELSE LET each == [n \in 1..Len(items) |-> NotifyFound(m, n, items[n], failing)]
         IN  [sent |-> Flatten([n \in 1..Len(items) |-> each[n].sent]),
              err |-> LastErrOf([n \in 1..Len(items) |-> each[n].err])]

\* a variant that sends no heartbeat
NotifyNoHeartbeat(m, failing) == [sent |-> <<>>, err |-> Nil]

NotifyHeartbeat(m, failing) ==
    NotifyAll(m, 1, HeartbeatSubject, HeartbeatMessage, failing)

\* the sends that fail when msgs messages go to the services of ncs: those to
\* a service that is not reachable
FailingOf(ncs, msgs) ==
    (1..msgs) \X { s \in SinksOf(NewNotificationManager(ncs)) : ~ncs[s].up }

(***************************************************************************)
(* Search (internal/search): what one SearchItem call can return.          *)
(***************************************************************************)
ErrSearch == "search request failed"
Date(year, month, day, hour, minute, second) ==
    [year |-> year, month |-> month, day |-> day,
     hour |-> hour, minute |-> minute, second |-> second]
\* Date: time.Now() of extractResults, one instant per term searched
SearchDate == [t1 |-> Date(2025, 1, 1, 10, 0, 0),
               t2 |-> Date(2025, 1, 2, 11, 30, 0)]
LiquorItem(term, i) ==
    [name |-> term, store |-> ToString(i), date |-> SearchDate[term], price |-> "$10"]
\* the outcomes of SearchItem(ctx, term, zipcode, distance): an error, or the
\* rows of the result table (extractResults)
SearchOutcomes(term) ==
    { [err |-> ErrSearch, results |-> <<>>] }
    \cup { [err |-> Nil, results |-> [i \in 1..k |-> LiquorItem(term, i)]]
           : k \in 0..MaxResults }

(***************************************************************************)
(* Construction (runner.NewRunner, newUserRunner).                         *)
(***************************************************************************)
newUserRunner(userConfig) ==
    [userConfig |-> userConfig,
     notifier |-> NewNotificationManager(userConfig.notifications)]

\* a variant of NewRunner without the check for an empty list of users
NewRunnerAcceptsNoUsers(users) ==
    IF \E i \in 1..Len(users) : newUserRunner(users[i]).notifier.err # Nil
    THEN [err |-> ErrNotifier, userRunners |-> <<>>]
    ELSE [err |-> Nil,
          userRunners |->
              [n \in { users[i].name : i \in 1..Len(users) } |->
                  LET last == CHOOSE i \in 1..Len(users) :
                                  /\ users[i].name = n
                                  /\ \A j \in 1..Len(users) : users[j].name = n => j <= i
                  IN  newUserRunner(users[last])]]

\* userRunners[userConfig.Name] = userRunner, in list order: a later entry
\* of the same name replaces an earlier one
NewRunner(users) ==
    IF Len(users) = 0 THEN [err |-> ErrNoUsers, userRunners |-> <<>>]
    ELSE IF \E i \in 1..Len(users) : newUserRunner(users[i]).notifier.err # Nil
    THEN [err |-> ErrNotifier, userRunners |-> <<>>]
    ELSE [err |-> Nil,
          userRunners |->
              [n \in { users[i].name : i \in 1..Len(users) } |->
                  LET last == CHOOSE i \in 1..Len(users) :
                                  /\ users[i].name = n
                                  /\ \A j \in 1..Len(users) : users[j].name = n => j <= i
                  IN  newUserRunner(users[last])]]

VARIABLES
    cfgUsers,       \* cfg.Users, the configuration NewRunner was given
    once,           \* the --once flag of the command
    tickBudget,     \* per user: ticks the runner's ticker is going to deliver
    newErr,         \* the error NewRunner returned
    userRunners,    \* SearchRunner.userRunners
    stopBudget,     \* calls of Stop the environment is going to make
    stopCalls,      \* calls of SearchRunner.Stop made so far
    panicked,       \* the process has died in a panic
    parentDone,     \* the caller's context is cancelled
    srPC,           \* SearchRunner.Start: "idle", "select", "wait", "done"
    srStopChan,     \* SearchRunner.stopChan: "open" or "closed"
    srCtxDone,      \* cancel() of the context Start derives has been called
    errChan,        \* errChan of Start
    completedUsers, \* completedUsers of Start
    srResult,       \* what Start returned
    timer,          \* time elapsed on the pending time.After of Start
    waited,         \* time elapsed since Start began to wait for the runners
    roPC,           \* SearchRunner.RunOnce: "idle", "wait", "done"
    roErrChan,      \* errChan of RunOnce
    roCompleted,    \* completedUsers of RunOnce
    lastErr,        \* lastErr of RunOnce
    roResult,       \* what RunOnce returned
    roReceived,     \* every value RunOnce has received from its errChan
    urPC,           \* per user: the goroutine running userRunner.start
    urStopChan,     \* per user: userRunner.stopChan
    runningCh,      \* per user: tokens in userRunner.runningCh (capacity 1)
    urRet,          \* per user: what userRunner.start returned
    ticks,          \* per user: ticks received from ticker.C
    tickLog,        \* per user: for each tick, whether it found the gate free
    passes,         \* per user: the goroutines that run or ran runSearch
    sent,           \* per user: every send made to a notification sink
    nfConfigs,      \* direct call of NotifyFoundItems: the manager's configs
    nfItems,        \* direct call of NotifyFoundItems: the items handed over
    nfCalled,       \* direct call of NotifyFoundItems: it has been made
    nfOut,          \* direct call of NotifyFoundItems: its sends and its error
    gcEnv,          \* direct call of GetConfig: the GFL_ variables of the environment
    gcYaml,         \* direct call of GetConfig: what the YAML file unmarshals to
    gcCalled,       \* direct call of GetConfig: whether it has been made
    gcOut           \* direct call of GetConfig: the configuration returned

vars == <<cfgUsers, once, tickBudget, newErr, userRunners, stopBudget, stopCalls,
          panicked, parentDone, srPC, srStopChan, srCtxDone, errChan,
          completedUsers, srResult, timer, waited, roPC, roErrChan, roCompleted,
          lastErr, roResult, roReceived, urPC, urStopChan, runningCh, urRet,
          ticks, tickLog, passes, sent, nfConfigs, nfItems, nfCalled, nfOut,
          gcEnv, gcYaml, gcCalled, gcOut>>

callVars == <<nfConfigs, nfItems, nfCalled, nfOut, gcEnv, gcYaml, gcCalled, gcOut>>
cfgVars == <<cfgUsers, once, tickBudget, newErr, userRunners, stopBudget>>
envVars == <<stopCalls, panicked, parentDone>>
srVars == <<srPC, srStopChan, srCtxDone, errChan, completedUsers, srResult,
            timer, waited>>
roVars == <<roPC, roErrChan, roCompleted, lastErr, roResult, roReceived>>
urVars == <<urPC, urStopChan, urRet, ticks, tickLog>>

Users == DOMAIN userRunners
userCount == Cardinality(Users)

\* a variant of the result channels with room for all reports but one
ErrChanCapLessOne == userCount - 1

\* errChan := make(chan error, userCount), in Start and in RunOnce
ErrChanCap == userCount

\* GetUserCount: len(sr.userRunners); HasUser: _, exists := sr.userRunners[name]
GetUserCount == Cardinality(DOMAIN userRunners)
HasUser(name) == name \in DOMAIN userRunners

\* the state of a process that has just been started
Fresh ==
    /\ stopCalls = 0
    /\ parentDone = FALSE
    /\ srPC = "idle"
    /\ srStopChan = "open"
    /\ srCtxDone = FALSE
    /\ errChan = <<>>
    /\ completedUsers = 0
    /\ srResult = "none"
    /\ timer = 0
    /\ waited = 0
    /\ roPC = "idle"
    /\ roErrChan = <<>>
    /\ roCompleted = 0
    /\ lastErr = Nil
    /\ roResult = "none"
    /\ roReceived = <<>>
    /\ urPC = [n \in Names |-> "idle"]
    /\ urStopChan = [n \in Names |-> "open"]
    /\ runningCh = [n \in Names |-> 0]
    /\ urRet = [n \in Names |-> "none"]
    /\ ticks = [n \in Names |-> 0]
    /\ tickLog = [n \in Names |-> <<>>]
    /\ passes = [n \in Names |-> <<>>]
    /\ sent = [n \in Names |-> <<>>]

\* no direct call of NotifyFoundItems or GetConfig is made
NoCall ==
    /\ nfConfigs = <<>>
    /\ nfItems = <<>>
    /\ nfCalled = FALSE
    /\ nfOut = [sent |-> <<>>, err |-> Nil]
    /\ gcEnv = NoEnv
    /\ gcYaml = NoYaml
    /\ gcCalled = FALSE
    /\ gcOut = NoYaml

\* the state after rootCmdRun has built the runner from the configuration
InitWith(configs, budget) ==
    /\ NoCall
    /\ cfgUsers \in configs
    /\ once \in BOOLEAN
    /\ tickBudget = TicksFor(cfgUsers)
    /\ newErr = NewRunner(cfgUsers).err
    /\ userRunners = NewRunner(cfgUsers).userRunners
    /\ stopBudget = budget
    /\ panicked = FALSE
    /\ Fresh

Init == InitWith(Configs, MaxStopCalls)

\* a panic ends the process: every goroutine is gone, and so is its state
Crash ==
    /\ panicked' = TRUE
    /\ stopCalls' = 0
    /\ parentDone' = FALSE
    /\ srPC' = "idle"
    /\ srStopChan' = "open"
    /\ srCtxDone' = FALSE
    /\ errChan' = <<>>
    /\ completedUsers' = 0
    /\ srResult' = "none"
    /\ timer' = 0
    /\ waited' = 0
    /\ roPC' = "idle"
    /\ roErrChan' = <<>>
    /\ roCompleted' = 0
    /\ lastErr' = Nil
    /\ roResult' = "none"
    /\ roReceived' = <<>>
    /\ urPC' = [n \in Names |-> "idle"]
    /\ urStopChan' = [n \in Names |-> "open"]
    /\ runningCh' = [n \in Names |-> 0]
    /\ urRet' = [n \in Names |-> "none"]
    /\ ticks' = [n \in Names |-> 0]
    /\ tickLog' = [n \in Names |-> <<>>]
    /\ passes' = [n \in Names |-> <<>>]
    /\ sent' = [n \in Names |-> <<>>]
    /\ UNCHANGED <<callVars, cfgVars>>

(***************************************************************************)
(* The environment of the runner: the signal handler of rootCmdRun and the *)
(* tests call Stop and cancel the context they passed.                     *)
(***************************************************************************)
\* the process runs: rootCmdRun exits if NewRunner failed, and a panic ends it
Alive == newErr = Nil /\ ~panicked

\* close(ch) panics on a channel that is already closed
ClosePanics(ch) == ch = "closed"

\* SearchRunner.Stop: close(sr.stopChan)
Stop ==
    /\ Alive
    /\ stopCalls < stopBudget
    /\ IF ClosePanics(srStopChan)
       THEN Crash
       ELSE /\ stopCalls' = stopCalls + 1
            /\ srStopChan' = "closed"
            /\ UNCHANGED <<callVars, cfgVars, panicked, parentDone, srPC, srCtxDone,
                           errChan, completedUsers, srResult, timer, waited, roVars,
                           urVars, runningCh, passes, sent>>

\* ctx.Done() of the context Start derives with context.WithCancel(ctx)
StartCtxDone == parentDone \/ srCtxDone

\* the context runSearch was handed: the caller's under RunOnce, the one Start
\* derives under Start
PassCtxDone(origin) == IF origin = "once" THEN parentDone ELSE StartCtxDone

\* a variant in which a cancellation wakes no select
WakeNobody(origins) == passes

\* a context is cancelled: its Done channel is closed, which wakes every pass
\* of the given origins that is blocked in the select of its wait; a select
\* woken by a channel takes that channel's case
WakeWaiting(origins) ==
    [n \in Names |->
        [p \in 1..Len(passes[n]) |->
            IF /\ passes[n][p].pc = "wait"
               /\ passes[n][p].origin \in origins
               /\ ~PassCtxDone(passes[n][p].origin)
            THEN [passes[n][p] EXCEPT !.pc = "woken"]
            ELSE passes[n][p]]]

\* cancel() of the context handed to Start or RunOnce, drawn while the call is
\* waiting on it.  A context cancelled before the call is one cancelled as the
\* call begins, and once Start has cancelled the context it derives, or RunOnce
\* has returned, the program reads the caller's context no more
Cancel ==
    /\ Alive
    /\ ~parentDone
    /\ IF once THEN roPC = "wait" ELSE srPC = "select"
    /\ parentDone' = TRUE
    /\ passes' = WakeWaiting({"once", "initial", "tick"})
    \* RunOnce blocked in its select with no report pending is woken by ctx.Done();
    \* with a report pending both cases of the select are ready
    /\ roPC' = IF once /\ roErrChan = <<>> THEN "woken" ELSE roPC
    /\ UNCHANGED <<callVars, cfgVars, stopCalls, panicked, srVars, roErrChan, roCompleted,
                   lastErr, roResult, roReceived, urVars, runningCh, sent>>

(***************************************************************************)
(* SearchRunner.Start                                                      *)
(***************************************************************************)
\* rootCmdRun calls r.Start(ctx): one goroutine per user runner is started
Start ==
    /\ Alive
    /\ ~once
    /\ srPC = "idle"
    /\ srPC' = "select"
    /\ urPC' = [n \in Names |-> IF n \in Users THEN "spawned" ELSE urPC[n]]
    /\ UNCHANGED <<callVars, cfgVars, envVars, srStopChan, srCtxDone, errChan,
                   completedUsers, srResult, timer, waited, roVars, urStopChan,
                   urRet, ticks, tickLog, runningCh, passes, sent>>

\* a variant of Start that goes on to wait without having stopped anything
WaitWithoutStopping(ctxDone) ==
    /\ srPC' = "wait"
    /\ timer' = 0
    /\ waited' = 0
    /\ UNCHANGED <<callVars, cfgVars, envVars, srStopChan, srCtxDone, errChan, completedUsers,
                   srResult, roVars, urPC, urStopChan, urRet, ticks, tickLog,
                   runningCh, passes, sent>>

\* for userName, ur := range sr.userRunners { ur.stop() }, then the wait begins
StopAllAndWait(ctxDone) ==
    IF \E n \in Users : ClosePanics(urStopChan[n])
    THEN Crash
    ELSE /\ urStopChan' = [n \in Names |-> IF n \in Users THEN "closed" ELSE urStopChan[n]]
         /\ srCtxDone' = ctxDone
         /\ passes' = IF ctxDone THEN WakeWaiting({"initial", "tick"}) ELSE passes
         /\ srPC' = "wait"
         /\ timer' = 0
         /\ waited' = 0
         /\ UNCHANGED <<callVars, cfgVars, envVars, srStopChan, errChan, completedUsers,
                        srResult, roVars, urPC, urRet, ticks, tickLog, runningCh,
                        sent>>

\* case <-sr.stopChan: cancel()
StartSelectStop ==
    /\ Alive
    /\ srPC = "select"
    /\ srStopChan = "closed"
    /\ StopAllAndWait(TRUE)

\* a variant of the select that a pass that has returned ends as well
StartSelectPassDone ==
    /\ Alive
    /\ srPC = "select"
    /\ \/ StartCtxDone
       \/ \E n \in Users : \E p \in 1..Len(passes[n]) : passes[n][p].pc = "done"
    /\ StopAllAndWait(srCtxDone)

\* case <-ctx.Done()
StartSelectCtx ==
    /\ Alive
    /\ srPC = "select"
    /\ StartCtxDone
    /\ StopAllAndWait(srCtxDone)

\* a variant of the loop that is content with all runners but one
StartWaitsAllButOne(completed) == completed < userCount - 1

\* for completedUsers < userCount
StartWaits(completed) == completed < userCount

\* a variant of Start that hands the cancellation of its caller's context on
StartReturnsCtxErr == IF parentDone THEN CtxErr ELSE Nil

\* what Start returns after the loop
StartReturns == Nil

\* case err := <-errChan: completedUsers++; after the loop, return nil
StartWaitRecv ==
    /\ Alive
    /\ srPC = "wait"
    /\ errChan # <<>>
    /\ errChan' = Tail(errChan)
    /\ completedUsers' = completedUsers + 1
    /\ timer' = 0
    /\ IF StartWaits(completedUsers + 1)
       THEN UNCHANGED <<srPC, srResult>>
       ELSE srPC' = "done" /\ srResult' = StartReturns
    /\ UNCHANGED <<callVars, cfgVars, envVars, srStopChan, srCtxDone, waited, roVars, urVars,
                   runningCh, passes, sent>>

\* case <-time.After(30 * time.Second): return the timeout error
StartWaitTimeout ==
    /\ Alive
    /\ srPC = "wait"
    /\ timer >= ShutdownTimeout
    /\ srPC' = "done"
    /\ srResult' = ErrTimeout
    /\ UNCHANGED <<callVars, cfgVars, envVars, srStopChan, srCtxDone, errChan, completedUsers,
                   timer, waited, roVars, urVars, runningCh, passes, sent>>

\* time passes while Start waits; the pending timer fires no later than its deadline
TimePass ==
    /\ Alive
    /\ srPC = "wait"
    /\ timer < ShutdownTimeout
    /\ timer' = Min(timer + Quantum, ShutdownTimeout)
    /\ waited' = waited + (Min(timer + Quantum, ShutdownTimeout) - timer)
    /\ UNCHANGED <<callVars, cfgVars, envVars, srPC, srStopChan, srCtxDone, errChan,
                   completedUsers, srResult, roVars, urVars, runningCh, passes, sent>>

(***************************************************************************)
(* userRunner.start                                                        *)
(***************************************************************************)
GateCap == 1    \* runningCh: make(chan struct{}, 1)

\* a variant in which allFoundItems outlives the pass: a new pass begins with
\* a batch some pass has collected
PassSharingBatch(origin, pc) ==
    [origin |-> origin, pc |-> pc, idx |-> 0,
     batch |-> IF \E n \in Names : \E p \in 1..Len(passes[n]) : passes[n][p].batch # <<>>
               THEN LET n == CHOOSE n \in Names :
                                 \E p \in 1..Len(passes[n]) : passes[n][p].batch # <<>>
                        p == CHOOSE p \in 1..Len(passes[n]) : passes[n][p].batch # <<>>
                    IN  passes[n][p].batch
               ELSE <<>>,
     ret |-> "none", log |-> <<>>]

\* a goroutine that runs runSearch: where it is (pc), the position of the term
\* it is at (idx), allFoundItems (batch), what runSearch returned (ret) and
\* the calls runSearch has made so far (log)
Pass(origin, pc) ==
    [origin |-> origin, pc |-> pc, idx |-> 0, batch |-> <<>>, ret |-> "none",
     log |-> <<>>]

\* one call made by runSearch: SearchItem ("search"), the select of the wait
\* ("wait") and its ctx.Done() case ("cancelled"), NotifyFoundItems ("notify")
\* and NotifyHeartbeat ("heartbeat"), with the position of the term it is
\* made at, the error it returned (for a wait: ctx.Err() as the select began)
\* and the items it returned or was handed
Call(op, idx, err, items) == [op |-> op, idx |-> idx, err |-> err, items |-> items]

\* runner.start begins: go func() { ur.runningCh <- struct{}{} ... }() and the ticker
RunnerBegin(n) ==
    /\ Alive
    /\ urPC[n] = "spawned"
    /\ urPC' = [urPC EXCEPT ![n] = "loop"]
    /\ passes' = [passes EXCEPT ![n] = Append(@, Pass("initial", "acquire"))]
    /\ UNCHANGED <<callVars, cfgVars, envVars, srVars, roVars, urStopChan, urRet, ticks,
                   tickLog, runningCh, sent>>

\* a variant in which the user runners share one gate
GateSharedByAll(tokens, n) ==
    LET RECURSIVE Sum(_)
        Sum(S) == IF S = {} THEN 0
                  ELSE LET m == CHOOSE m \in S : TRUE IN tokens[m] + Sum(S \ {m})
    IN  Sum(Names)

\* ur.runningCh: every user runner is built with a gate of its own
Gate(tokens, n) == tokens[n]

\* variants of the gate: one whose send always goes through (an unbounded
\* channel), one whose send never does
TickAdmitsAlways(tokens) == TRUE
TickAdmitsNever(tokens) == FALSE

\* select { case ur.runningCh <- struct{}{}: ... default: skip }
TickAdmits(tokens) == tokens < GateCap

\* case <-ticker.C
Tick(n) ==
    /\ Alive
    /\ urPC[n] = "loop"
    /\ ticks[n] < tickBudget[n]
    /\ ticks' = [ticks EXCEPT ![n] = @ + 1]
    /\ tickLog' = [tickLog EXCEPT ![n] = Append(@, runningCh[n] = 0)]
    /\ IF TickAdmits(Gate(runningCh, n))
       THEN /\ runningCh' = [runningCh EXCEPT ![n] = @ + 1]
            /\ passes' = [passes EXCEPT ![n] = Append(@, Pass("tick", "start"))]
       ELSE UNCHANGED <<runningCh, passes>>
    /\ UNCHANGED <<callVars, cfgVars, envVars, srVars, roVars, urPC, urStopChan, urRet, sent>>

\* what the goroutine of Start or RunOnce sends for a runner's result
Report(n, err) == IF err # Nil THEN WrapUser(n, err) ELSE Nil

\* a variant in which a user runner whose start has returned is taken out of
\* the runner's map
RunnerReturnsAndLeaves(n, err) ==
    /\ Len(errChan) < ErrChanCap
    /\ urPC' = [urPC EXCEPT ![n] = "exited"]
    /\ urRet' = [urRet EXCEPT ![n] = err]
    /\ errChan' = Append(errChan, Report(n, err))
    /\ userRunners' = [m \in Users \ {n} |-> userRunners[m]]
    /\ UNCHANGED <<callVars, cfgUsers, once, tickBudget, newErr, stopBudget, envVars,
                   srPC, srStopChan, srCtxDone, completedUsers,
                   srResult, timer, waited, roVars, urStopChan, ticks, tickLog,
                   runningCh, passes, sent>>

\* runner.start returns err and its goroutine reports: errChan <- ...
RunnerReturns(n, err) ==
    /\ Len(errChan) < ErrChanCap
    /\ urPC' = [urPC EXCEPT ![n] = "exited"]
    /\ urRet' = [urRet EXCEPT ![n] = err]
    /\ errChan' = Append(errChan, Report(n, err))
    /\ UNCHANGED <<callVars, cfgVars, envVars, srPC, srStopChan, srCtxDone, completedUsers,
                   srResult, timer, waited, roVars, urStopChan, ticks, tickLog,
                   runningCh, passes, sent>>

\* a variant of the loop that also returns once a pass has returned an error
RunnerStopOnFailure(n) ==
    /\ Alive
    /\ urPC[n] = "loop"
    /\ \/ urStopChan[n] = "closed"
       \/ \E p \in 1..Len(passes[n]) : passes[n][p].ret \notin {Nil, "none"}
    /\ RunnerReturns(n, Nil)

\* case <-ur.stopChan: return nil
RunnerStop(n) ==
    /\ Alive
    /\ urPC[n] = "loop"
    /\ urStopChan[n] = "closed"
    /\ RunnerReturns(n, Nil)

\* a variant whose cancellation case returns nil
RunnerCtxDoneReturnsNil(n) ==
    /\ Alive
    /\ urPC[n] = "loop"
    /\ StartCtxDone
    /\ RunnerReturns(n, Nil)

\* case <-ctx.Done(): return ctx.Err()
RunnerCtxDone(n) ==
    /\ Alive
    /\ urPC[n] = "loop"
    /\ StartCtxDone
    /\ RunnerReturns(n, CtxErr)

(***************************************************************************)
(* userRunner.runSearch, run by the initial goroutine and the tick         *)
(* goroutines of start and by the goroutines of RunOnce.  The pc of a pass *)
(* is the call it is blocked in: "acquire" (runningCh <- struct{}{}),      *)
(* "start" (the goroutine has not run yet), "search" (SearchItem of term   *)
(* idx), "wait" (the random wait after term idx; "woken" once a            *)
(* cancellation has woken its select), "notify"                           *)
(* (NotifyFoundItems), "heartbeat" (NotifyHeartbeat); "done" once          *)
(* runSearch has returned ret and the goroutine has released the gate or   *)
(* reported.                                                               *)
(***************************************************************************)
ItemsOf(n) == userRunners[n].userConfig.items
ZipcodeOf(n) == userRunners[n].userConfig.zipcode
NotifierOf(n) == userRunners[n].notifier

\* the sends of one call, tagged with the pass that made them
Tagged(p, sends) ==
    [i \in 1..Len(sends) |->
        [pass |-> p, sink |-> sends[i].sink, subject |-> sends[i].subject,
         message |-> sends[i].message, ok |-> sends[i].ok]]

\* the sends of a call of msgs messages that fail: those to an unreachable service
Failing(n, msgs) == FailingOf(userRunners[n].userConfig.notifications, msgs)

\* a variant whose goroutine releases the gate only when runSearch returned nil
PassReturnsKeepsGateOnError(n, p, rec, ret, held) ==
    /\ passes' = [passes EXCEPT ![n][p] = [rec EXCEPT !.pc = "done", !.ret = ret]]
    /\ IF rec.origin = "once"
       THEN /\ Len(roErrChan) < ErrChanCap
            /\ roErrChan' = Append(roErrChan, Report(n, ret))
            /\ UNCHANGED runningCh
       ELSE /\ held > 0
            /\ runningCh' = [runningCh EXCEPT ![n] = IF ret = Nil THEN held - 1 ELSE held]
            /\ UNCHANGED roErrChan
    /\ UNCHANGED <<callVars, cfgVars, envVars, srVars, roPC, roCompleted, lastErr, roResult,
                   roReceived, urVars>>

\* runSearch returns ret in a goroutine that holds held tokens of the gate:
\* defer func() { <-ur.runningCh }() under start, errChan <- ... under RunOnce
PassReturns(n, p, rec, ret, held) ==
    /\ passes' = [passes EXCEPT ![n][p] = [rec EXCEPT !.pc = "done", !.ret = ret]]
    /\ IF rec.origin = "once"
       THEN /\ Len(roErrChan) < ErrChanCap
            /\ roErrChan' = Append(roErrChan, Report(n, ret))
            /\ UNCHANGED runningCh
       ELSE /\ held > 0
            /\ runningCh' = [runningCh EXCEPT ![n] = held - 1]
            /\ UNCHANGED roErrChan
    /\ UNCHANGED <<callVars, cfgVars, envVars, srVars, roPC, roCompleted, lastErr, roResult,
                   roReceived, urVars>>

\* a step of runSearch that does not return, in a goroutine that holds held
\* tokens of the gate
PassGoes(n, p, rec, held) ==
    /\ passes' = [passes EXCEPT ![n][p] = rec]
    /\ runningCh' = [runningCh EXCEPT ![n] = held]
    /\ UNCHANGED <<callVars, cfgVars, envVars, srVars, roVars, urVars>>

\* a variant of the checks that lets an empty zipcode pass
PreconditionItemsOnly(name, items, zipcode) ==
    IF Len(items) = 0 THEN ErrNoItems(name) ELSE Nil

\* the checks at the top of runSearch
Precondition(name, items, zipcode) ==
    IF Len(items) = 0 THEN ErrNoItems(name)
    ELSE IF zipcode = "" THEN ErrNoZipcode(name)
    ELSE Nil

\* runSearch begins: it checks its preconditions and calls SearchItem
Begins(n, p, held) ==
    /\ UNCHANGED sent
    /\ IF Precondition(n, ItemsOf(n), ZipcodeOf(n)) # Nil
       THEN PassReturns(n, p, passes[n][p], Precondition(n, ItemsOf(n), ZipcodeOf(n)), held)
       ELSE PassGoes(n, p, [passes[n][p] EXCEPT !.pc = "search", !.idx = 1], held)

\* the initial goroutine's ur.runningCh <- struct{}{} goes through, and it
\* calls runSearch
InitialAcquire(n, p) ==
    /\ Alive
    /\ passes[n][p].pc = "acquire"
    /\ Gate(runningCh, n) < GateCap
    /\ Begins(n, p, runningCh[n] + 1)

\* the goroutine of a tick, or of RunOnce, runs and calls runSearch
PassBegin(n, p) ==
    /\ Alive
    /\ passes[n][p].pc = "start"
    /\ Begins(n, p, runningCh[n])

\* if len(Items) > 1 && item != Items[len(Items)-1]
NeedsWait(items, idx) == Len(items) > 1 /\ items[idx] # items[Len(items)]

\* a variant of runSearch that calls NotifyFoundItems whatever it has found
NextTermAlwaysNotifies(rec, items) ==
    IF rec.idx < Len(items)
    THEN [rec EXCEPT !.pc = "search", !.idx = rec.idx + 1]
    ELSE [rec EXCEPT !.pc = "notify"]

\* the next iteration of for _, item := range Items or, after the last, the
\* notifications: if len(allFoundItems) > 0 { NotifyFoundItems } NotifyHeartbeat
NextTerm(rec, items) ==
    IF rec.idx < Len(items)
    THEN [rec EXCEPT !.pc = "search", !.idx = rec.idx + 1]
    ELSE IF Len(rec.batch) > 0 THEN [rec EXCEPT !.pc = "notify"]
    ELSE [rec EXCEPT !.pc = "heartbeat"]

\* a variant of runSearch that returns the error of a failed search
AfterSearchAborts(rec, items, out, ctxDone) ==
    LET called == [rec EXCEPT !.log = Append(@, Call("search", rec.idx, out.err, out.results))]
    IN  IF out.err # Nil THEN [called EXCEPT !.pc = "done", !.ret = out.err]
        ELSE LET found == [called EXCEPT !.batch = rec.batch \o out.results]
             IN  IF NeedsWait(items, rec.idx)
                 THEN [found EXCEPT !.pc = "wait",
                                    !.log = Append(@, Call("wait", rec.idx,
                                                IF ctxDone THEN CtxErr ELSE Nil, <<>>))]
                 ELSE NextTerm(found, items)

\* SearchItem has returned out: on an error continue; else collect the
\* results and wait before the next term
AfterSearch(rec, items, out, ctxDone) ==
    LET called == [rec EXCEPT !.log = Append(@, Call("search", rec.idx, out.err, out.results))]
    IN  IF out.err # Nil THEN NextTerm(called, items)
        ELSE LET found == [called EXCEPT !.batch = rec.batch \o out.results]
             IN  IF NeedsWait(items, rec.idx)
                 THEN [found EXCEPT !.pc = "wait",
                                    !.log = Append(@, Call("wait", rec.idx,
                                                IF ctxDone THEN CtxErr ELSE Nil, <<>>))]
                 ELSE NextTerm(found, items)

PassSearch(n, p) ==
    /\ Alive
    /\ passes[n][p].pc = "search"
    /\ UNCHANGED sent
    /\ \E out \in SearchOutcomes(ItemsOf(n)[passes[n][p].idx]) :
           PassGoes(n, p, AfterSearch(passes[n][p], ItemsOf(n), out,
                                      PassCtxDone(passes[n][p].origin)),
                    runningCh[n])

\* case <-time.After(waitTime)
PassWaitElapsed(n, p) ==
    /\ Alive
    /\ passes[n][p].pc = "wait"
    /\ UNCHANGED sent
    /\ PassGoes(n, p, NextTerm(passes[n][p], ItemsOf(n)), runningCh[n])

\* case <-ctx.Done(): return ctx.Err(), in a select the cancellation has woken
\* or one that found the context cancelled when it began
PassWaitCancelled(n, p) ==
    /\ Alive
    /\ \/ passes[n][p].pc = "woken"
       \/ passes[n][p].pc = "wait" /\ PassCtxDone(passes[n][p].origin)
    /\ UNCHANGED sent
    /\ PassReturns(n, p,
                   [passes[n][p] EXCEPT
                       !.log = Append(@, Call("cancelled", passes[n][p].idx, CtxErr, <<>>))],
                   CtxErr, runningCh[n])

\* a variant of runSearch that returns the error of NotifyFoundItems
AfterNotifyReturnsErr(rec, err) ==
    IF err # Nil THEN [rec EXCEPT !.pc = "done", !.ret = err]
    ELSE [rec EXCEPT !.pc = "heartbeat"]

\* if err := ur.notifier.NotifyFoundItems(...); err != nil { log.Warnf(...) }
AfterNotify(rec, err) == [rec EXCEPT !.pc = "heartbeat"]

\* ur.notifier.NotifyFoundItems(ctx, allFoundItems) returns; its error is logged
PassNotify(n, p) ==
    LET out == NotifyFoundItems(NotifierOf(n), passes[n][p].batch,
                                Failing(n, Len(passes[n][p].batch)))
    IN  /\ Alive
        /\ passes[n][p].pc = "notify"
        /\ sent' = [sent EXCEPT ![n] = @ \o Tagged(p, out.sent)]
        /\ PassGoes(n, p,
                    AfterNotify([passes[n][p] EXCEPT
                        !.log = Append(@, Call("notify", passes[n][p].idx, out.err,
                                               passes[n][p].batch))], out.err),
                    runningCh[n])

\* ur.notifier.NotifyHeartbeat(ctx) returns; its error is logged; return nil
PassHeartbeat(n, p) ==
    LET out == NotifyHeartbeat(NotifierOf(n), Failing(n, 1))
    IN  /\ Alive
        /\ passes[n][p].pc = "heartbeat"
        /\ sent' = [sent EXCEPT ![n] = @ \o Tagged(p, out.sent)]
        /\ PassReturns(n, p,
                       [passes[n][p] EXCEPT
                           !.log = Append(@, Call("heartbeat", passes[n][p].idx,
                                                  out.err, <<>>))],
                       Nil, runningCh[n])

(***************************************************************************)
(* SearchRunner.RunOnce                                                    *)
(***************************************************************************)
\* rootCmdRun calls r.RunOnce(ctx): one goroutine per user runs runner.runOnce
RunOnce ==
    /\ Alive
    /\ once
    /\ roPC = "idle"
    /\ roPC' = "wait"
    /\ passes' = [n \in Names |->
                     IF n \in Users THEN Append(passes[n], Pass("once", "start"))
                     ELSE passes[n]]
    /\ UNCHANGED <<callVars, cfgVars, envVars, srVars, roErrChan, roCompleted, lastErr,
                   roResult, roReceived, urVars, runningCh, sent>>

\* a variant that keeps the first error
KeepFirstErr(last, err) == IF last # Nil THEN last ELSE err

\* if err != nil { lastErr = err }
KeepLastErr(last, err) == IF err # Nil THEN err ELSE last

\* a variant of the loop that is content with the first result
RunOnceWaitsForFirst(completed) == completed < 1

\* for completedUsers < userCount
RunOnceWaits(completed) == completed < userCount

\* case err := <-errChan: ...; completedUsers++; after the loop, return lastErr
RunOnceRecv ==
    /\ Alive
    /\ roPC = "wait"
    /\ roErrChan # <<>>
    /\ roErrChan' = Tail(roErrChan)
    /\ roReceived' = Append(roReceived, Head(roErrChan))
    /\ lastErr' = KeepLastErr(lastErr, Head(roErrChan))
    /\ roCompleted' = roCompleted + 1
    /\ IF RunOnceWaits(roCompleted + 1)
       THEN UNCHANGED <<roPC, roResult>>
       ELSE roPC' = "done" /\ roResult' = KeepLastErr(lastErr, Head(roErrChan))
    /\ UNCHANGED <<callVars, cfgVars, envVars, srVars, urVars, runningCh, passes, sent>>

\* a variant whose cancellation case returns what the loop has collected
RunOnceCtxReturnsLastErr ==
    /\ Alive
    /\ roPC = "woken" \/ (roPC = "wait" /\ parentDone)
    /\ roPC' = "done"
    /\ roResult' = lastErr
    /\ UNCHANGED <<callVars, cfgVars, envVars, srVars, roErrChan, roCompleted, lastErr,
                   roReceived, urVars, runningCh, passes, sent>>

\* case <-ctx.Done(): return ctx.Err()
RunOnceCtx ==
    /\ Alive
    /\ roPC = "woken" \/ (roPC = "wait" /\ parentDone)
    /\ roPC' = "done"
    /\ roResult' = CtxErr
    /\ UNCHANGED <<callVars, cfgVars, envVars, srVars, roErrChan, roCompleted, lastErr,
                   roReceived, urVars, runningCh, passes, sent>>

(***************************************************************************)
(* The program: every goroutine and the environment, interleaved.          *)
(***************************************************************************)
PassIds(n) == 1..Len(passes[n])

Next ==
    \/ Stop
    \/ Cancel
    \/ Start
    \/ StartSelectStop
    \/ StartSelectCtx
    \/ StartWaitRecv
    \/ StartWaitTimeout
    \/ TimePass
    \/ RunOnce
    \/ RunOnceRecv
    \/ RunOnceCtx
    \/ \E n \in Users : RunnerBegin(n)
    \/ \E n \in Users : Tick(n)
    \/ \E n \in Users : RunnerStop(n)
    \/ \E n \in Users : RunnerCtxDone(n)
    \/ \E n \in Users : \E p \in PassIds(n) : InitialAcquire(n, p)
    \/ \E n \in Users : \E p \in PassIds(n) : PassBegin(n, p)
    \/ \E n \in Users : \E p \in PassIds(n) : PassSearch(n, p)
    \/ \E n \in Users : \E p \in PassIds(n) : PassWaitElapsed(n, p)
    \/ \E n \in Users : \E p \in PassIds(n) : PassWaitCancelled(n, p)
    \/ \E n \in Users : \E p \in PassIds(n) : PassNotify(n, p)
    \/ \E n \in Users : \E p \in PassIds(n) : PassHeartbeat(n, p)

Spec == Init /\ [][Next]_vars

(***************************************************************************)
(* Properties.                                                             *)
(***************************************************************************)
\* a pass of start that holds the admission gate: runSearch is running, or
\* about to run, in its goroutine
HoldsGate(rec) == rec.origin # "once" /\ rec.pc \notin {"acquire", "done"}
InFlight(n) == { p \in PassIds(n) : HoldsGate(passes[n][p]) }
TickPasses(n) == { p \in PassIds(n) : passes[n][p].origin = "tick" }
FreeTicks(n) == { i \in 1..Len(tickLog[n]) : tickLog[n][i] }

\* C1: for one user runner driven by start, at most one pass is in flight in
\* every reachable state: the initial pass and the tick passes never overlap,
\* and the gate holds exactly one token per pass in flight.
C1_AtMostOnePassInFlight ==
    \A n \in Names :
        /\ Cardinality(InFlight(n)) <= 1
        /\ runningCh[n] = Cardinality(InFlight(n))

\* a tick pass is searching while the initial pass still waits for the gate
C1_Witness ==
    \E n \in Users : \E p, q \in PassIds(n) :
        /\ passes[n][p].origin = "tick" /\ passes[n][p].pc = "search"
        /\ passes[n][q].origin = "initial" /\ passes[n][q].pc = "acquire"

\* C2: a tick that finds the gate held starts no pass, then or later: the tick
\* passes ever started are as many as the ticks that found the gate free, and
\* every tick is accounted for.
C2_SkippedTicksStartNothing ==
    \A n \in Names :
        /\ Len(tickLog[n]) = ticks[n]
        /\ Cardinality(TickPasses(n)) = Cardinality(FreeTicks(n))

\* a tick was skipped, the pass that held the gate has since finished, and
\* no pass has been started for the skipped tick
C2_Witness ==
    \E n \in Users :
        /\ tickLog[n] = <<FALSE>>
        /\ Len(passes[n]) = 1
        /\ passes[n][1].pc = "done"
        /\ runningCh[n] = 0

\* C3: Stop is idempotent: a second or later call has no effect and raises
\* no failure, so no call of Stop ever ends the process in a panic.
C3_StopNeverPanics == ~panicked

\* the process has died in the second call of Stop
C3_Witness == panicked /\ stopBudget > 1

\* The Go scheduler runs every goroutine that can run, time passes and timers
\* fire: Start and the goroutines running userRunner.start take their next
\* step if they stay able to.  Nothing is assumed of the environment (Stop,
\* Cancel), of the tickers, or of the passes in flight.
Fairness ==
    /\ WF_vars(StartSelectStop \/ StartSelectCtx)
    /\ WF_vars(StartWaitRecv)
    /\ WF_vars(StartWaitTimeout)
    /\ WF_vars(TimePass)
    /\ \A n \in Names :
           /\ WF_vars(RunnerBegin(n))
           /\ WF_vars(RunnerStop(n) \/ RunnerCtxDone(n))

\* the configurations of the runs checked for progress
LiveConfigs == { <<Alice>>, <<Alice1, Bob>> }

\* the program under a fair scheduler, with an environment that calls Stop
\* once, as the signal handler of rootCmdRun does
LiveSpec == InitWith(LiveConfigs, 1) /\ [][Next]_vars /\ Fairness

\* C4: once Stop has been called on a runner whose Start is running, every
\* user runner's start eventually returns, and Start itself eventually
\* returns.
C4_StopEndsStart ==
    (srStopChan = "closed" /\ srPC \in {"select", "wait"})
        ~> (srPC = "done" /\ \A n \in Users : urPC[n] = "exited")

\* Stop was called while Start and its two runners were running; the
\* runners have returned and Start has received both reports and returned nil
C4_Witness ==
    /\ stopCalls = 1 /\ ~parentDone
    /\ srPC = "done" /\ srResult = Nil
    /\ userCount = 2 /\ \A n \in Users : urPC[n] = "exited" /\ urRet[n] = Nil

\* C5 (as stated): when the caller's context is cancelled while Start is
\* running, Start returns the cancellation error, not nil.
C5_StartReturnsCancellation ==
    (srPC = "done" /\ parentDone) => srResult = CtxErr

\* C5 (as the code has it): Start never returns the cancellation error; when
\* its caller's context is cancelled while it runs, it returns nil once every
\* runner has reported, and the timeout error otherwise.
C5_StartNeverReturnsCancellation ==
    /\ srResult # CtxErr
    /\ (srPC = "done" /\ parentDone) =>
           srResult = IF completedUsers = userCount THEN Nil ELSE ErrTimeout

\* the context was cancelled, a runner returned the cancellation error, and
\* Start returned nil
C5_Witness ==
    /\ srPC = "done" /\ parentDone /\ srResult = Nil
    /\ \E n \in Users : urRet[n] = CtxErr

\* C6: after a stop request or a cancellation, Start returns nil only when all
\* runners have reported (and so have returned); it returns the timeout error
\* only when the wait timed out before that; and the timeout error differs
\* from everything a runner returns or reports.
C6_NilOnlyWhenAllReported ==
    /\ srPC = "done" => srResult \in {Nil, ErrTimeout}
    /\ srResult = Nil =>
           /\ srStopChan = "closed" \/ StartCtxDone
           /\ completedUsers = userCount
           /\ \A n \in Users : urPC[n] = "exited"
    /\ srResult = ErrTimeout =>
           /\ completedUsers < userCount
           /\ timer >= ShutdownTimeout
    /\ \A n \in Users : urRet[n] # ErrTimeout /\ Report(n, urRet[n]) # ErrTimeout
    /\ \A i \in 1..Len(errChan) : errChan[i] # ErrTimeout

\* of two runners one has reported, an error, and Start has timed out waiting
\* for the other
C6_Witness ==
    /\ srPC = "done" /\ srResult = ErrTimeout
    /\ userCount = 2 /\ completedUsers = 1
    /\ \E n \in Users : urRet[n] = CtxErr

\* C7: the wait of Start for its runners is bounded by one timeout measured
\* over the whole wait: Start returns no later than ShutdownTimeout after it
\* began to wait, whatever the number of users.
C7_WholeWaitBounded == waited <= ShutdownTimeout

\* Start has returned later than ShutdownTimeout after it began to wait
C7_Witness == srPC = "done" /\ waited > ShutdownTimeout /\ userCount = 2

OncePasses(n) == { p \in PassIds(n) : passes[n][p].origin = "once" }

\* C8: absent cancellation, RunOnce starts exactly one pass per user and
\* returns only after every one of them has finished, failed or not; no user
\* ever has more than one such pass.
C8_RunOnceWaitsForAll ==
    /\ \A n \in Names : Cardinality(OncePasses(n)) <= 1
    /\ (roPC = "done" /\ ~parentDone) =>
           /\ roCompleted = userCount
           /\ \A n \in Users :
                  /\ Cardinality(OncePasses(n)) = 1
                  /\ \A p \in OncePasses(n) : passes[n][p].pc = "done"

\* RunOnce has returned without cancellation: one user's pass failed, another
\* user's pass ran to its end and sent its heartbeat
C8_Witness ==
    /\ roPC = "done" /\ ~parentDone
    /\ \E n, m \in Users :
           /\ \E p \in OncePasses(n) : passes[n][p].ret \notin {Nil, "none"}
           /\ \E q \in OncePasses(m) : passes[m][q].ret = Nil
           /\ \E i \in 1..Len(sent[m]) : sent[m][i].subject = HeartbeatSubject

\* the positions of the errors among the results RunOnce has received
ErrorsReceived == { i \in 1..Len(roReceived) : roReceived[i] # Nil }

\* C9: absent cancellation, RunOnce returns nil if and only if every user's
\* pass returned nil; otherwise it returns the error received last, the
\* report of a user whose pass failed.
C9_RunOnceReturnsLastError ==
    (roPC = "done" /\ ~parentDone) =>
        /\ roResult = Nil <=>
               \A n \in Users : \A p \in OncePasses(n) : passes[n][p].ret = Nil
        /\ ErrorsReceived # {} =>
               /\ roResult = roReceived[CHOOSE i \in ErrorsReceived :
                                           \A j \in ErrorsReceived : j <= i]
               /\ \E n \in Users : \E p \in OncePasses(n) :
                      /\ passes[n][p].ret # Nil
                      /\ roResult = WrapUser(n, passes[n][p].ret)

\* two users' passes failed with different errors; RunOnce returned the one
\* it received second
C9_Witness ==
    /\ roPC = "done" /\ ~parentDone
    /\ Len(roReceived) = 2
    /\ roReceived[1] # Nil /\ roReceived[2] # Nil /\ roReceived[1] # roReceived[2]
    /\ roResult = roReceived[2]

\* the heartbeats pass p of user n has sent to sink s
Heartbeats(n, p, s) ==
    { i \in 1..Len(sent[n]) :
        /\ sent[n][i].pass = p
        /\ sent[n][i].sink = s
        /\ sent[n][i].subject = HeartbeatSubject
        /\ sent[n][i].message = HeartbeatMessage }

\* runSearch has run to its end in pass rec
Completed(rec) == rec.pc = "done" /\ rec.ret = Nil

ItemPool ==
    { [name |-> "Blantons", store |-> "Store A", date |-> Date(2025, 1, 1, 10, 0, 0),
       price |-> "$64.95"],
      [name |-> "Weller", store |-> "Store B", date |-> Date(2025, 1, 2, 11, 30, 5),
       price |-> "$25.00"],
      [name |-> "Pappy", store |-> "Store C", date |-> Date(2024, 12, 31, 23, 59, 59),
       price |-> "$7.50"] }

\* the lists of at most MaxBatch items
Batches == UNION { [1..k -> ItemPool] : k \in 0..MaxBatch }

\* the lists of notification configurations drawn: the first one's condense
\* flag is the manager's
NotifyConfigs ==
    { <<>> }
    \cup { <<Gotify(c, u)>> : c, u \in BOOLEAN }
    \cup { <<Gotify(c, u), Slack(~c, TRUE)>> : c, u \in BOOLEAN }
    \cup { <<Slack(c, u), Gotify(FALSE, TRUE), Slack(c, ~u)>> : c, u \in BOOLEAN }

NotifyInit ==
    /\ nfConfigs \in NotifyConfigs
    /\ nfItems \in Batches
    /\ nfCalled = FALSE
    /\ nfOut = [sent |-> <<>>, err |-> Nil]
    /\ gcEnv = NoEnv
    /\ gcYaml = NoYaml
    /\ gcCalled = FALSE
    /\ gcOut = NoYaml
    /\ cfgUsers = <<>>
    /\ once = FALSE
    /\ tickBudget = TicksFor(<<>>)
    /\ newErr = NewRunner(<<>>).err
    /\ userRunners = NewRunner(<<>>).userRunners
    /\ stopBudget = 0
    /\ panicked = FALSE
    /\ Fresh

\* manager.NotifyFoundItems(ctx, items)
CallNotifyFoundItems ==
    /\ ~nfCalled
    /\ NewNotificationManager(nfConfigs).err = Nil
    /\ nfCalled' = TRUE
    /\ nfOut' = NotifyFoundItems(NewNotificationManager(nfConfigs), nfItems,
                                 FailingOf(nfConfigs, Len(nfItems)))
    /\ UNCHANGED <<nfConfigs, nfItems, gcEnv, gcYaml, gcCalled, gcOut, cfgVars, envVars,
                   srVars, roVars, urVars, runningCh, passes, sent>>

NotifyNext == CallNotifyFoundItems

NotifySpec == NotifyInit /\ [][NotifyNext]_vars

\* the manager of the direct call and the sends of the call that went to sink s
nfManager == NewNotificationManager(nfConfigs)
nfSentTo(s) == SelectSeq(nfOut.sent, LAMBDA x : x.sink = s)

\* what a notification of one item reads, item by item
ExpectedSubject ==
    [Blantons |-> "GFL - Found Blantons!",
     Weller |-> "GFL - Found Weller!",
     Pappy |-> "GFL - Found Pappy!"]
ExpectedMessage ==
    [Blantons |-> "Found Blantons at Store A on 2025-01-01 at 10:00:00 for $64.95",
     Weller |-> "Found Weller at Store B on 2025-01-02 at 11:30:05 for $25.00",
     Pappy |-> "Found Pappy at Store C on 2024-12-31 at 23:59:59 for $7.50"]

\* C12: with condense false, NotifyFoundItems on N >= 0 items sends exactly N
\* notifications to each sink, one per item in the order of the items, the
\* subject and body of each naming its item: name, store, date, time, price.
C12_IndividualNotifications ==
    (nfCalled /\ ~nfManager.condense) =>
        /\ Len(nfOut.sent) = Len(nfItems) * Len(nfConfigs)
        /\ \A s \in 1..Len(nfConfigs) :
               /\ Len(nfSentTo(s)) = Len(nfItems)
               /\ \A i \in 1..Len(nfItems) :
                      /\ nfSentTo(s)[i].subject = ExpectedSubject[nfItems[i].name]
                      /\ nfSentTo(s)[i].message = ExpectedMessage[nfItems[i].name]

\* three different items have been notified one by one to two sinks
C12_Witness ==
    /\ nfCalled /\ ~nfManager.condense
    /\ Len(nfConfigs) = 2
    /\ Len(nfItems) = 3
    /\ nfItems[1] # nfItems[2] /\ nfItems[2] # nfItems[3] /\ nfItems[1] # nfItems[3]
    /\ Len(nfOut.sent) = 6

\* what the line of an item and the timestamp of a first item read in a
\* condensed notification
ExpectedLine ==
    [Blantons |-> "Blantons at Store A for $64.95\n",
     Weller |-> "Weller at Store B for $25.00\n",
     Pappy |-> "Pappy at Store C for $7.50\n"]
ExpectedStamp ==
    [Blantons |-> "2025-01-01 at 10:00:00",
     Weller |-> "2025-01-02 at 11:30:05",
     Pappy |-> "2024-12-31 at 23:59:59"]

C14_SingleItemParity ==
    (nfCalled /\ Len(nfItems) = 1) =>
        /\ nfOut = NotifyFoundItems([nfManager EXCEPT !.condense = ~nfManager.condense],
                                    nfItems, FailingOf(nfConfigs, 1))
        /\ \A s \in 1..Len(nfConfigs) :
               /\ Len(nfSentTo(s)) = 1
               /\ nfSentTo(s)[1].subject = ExpectedSubject[nfItems[1].name]
               /\ nfSentTo(s)[1].message = ExpectedMessage[nfItems[1].name]

\* one item has been notified by a condensing manager with two sinks
C14_Witness ==
    /\ nfCalled /\ nfManager.condense
    /\ Len(nfItems) = 1
    /\ Len(nfConfigs) = 2 /\ Len(nfOut.sent) = 2

\* C15: NotifyFoundItems on an empty list sends nothing to any sink and
\* returns no error, whether condense is true or false.
C15_EmptyBatchSendsNothing ==
    (nfCalled /\ nfItems = <<>>) => (nfOut.sent = <<>> /\ nfOut.err = Nil)

\* a condensing manager with an unreachable sink has been handed no items
C15_Witness ==
    /\ nfCalled /\ nfItems = <<>>
    /\ nfManager.condense
    /\ \E s \in 1..Len(nfConfigs) : ~nfConfigs[s].up

\* the calls of one kind a pass has made, by their position in its log
CallsOf(rec, op) == { k \in 1..Len(rec.log) : rec.log[k].op = op }

\* the SearchItem calls a pass has made, in the order it made them
SearchCalls(rec) == SelectSeq(rec.log, LAMBDA c : c.op = "search")

\* the items the SearchItem calls of a pass have returned, in call order
Found(rec) == Flatten([i \in 1..Len(SearchCalls(rec)) |-> SearchCalls(rec)[i].items])

\* C11: a pass calls NotifyFoundItems at most once, only after it has called
\* SearchItem for every term, in term order, and only with a batch that is
\* not empty and holds all the items those calls returned, in that order; a
\* pass that has run to its end has called it exactly once if it found
\* anything and not at all otherwise.
C11_BatchNotifiedOnce ==
    \A n \in Users : \A p \in PassIds(n) :
        LET rec == passes[n][p]
        IN  /\ Cardinality(CallsOf(rec, "notify")) <= 1
            /\ \A k \in CallsOf(rec, "notify") :
                   /\ \A j \in CallsOf(rec, "search") : j < k
                   /\ [i \in 1..Len(SearchCalls(rec)) |-> SearchCalls(rec)[i].idx]
                          = [i \in 1..Len(ItemsOf(n)) |-> i]
                   /\ rec.log[k].items = Found(rec)
                   /\ rec.log[k].items # <<>>
            /\ Completed(rec) =>
                   Cardinality(CallsOf(rec, "notify")) = IF Found(rec) # <<>> THEN 1 ELSE 0

\* a pass over two terms has run to its end: both searches returned an item
\* and NotifyFoundItems was called with the two of them
C11_Witness ==
    \E n \in Users : \E p \in PassIds(n) :
        /\ Completed(passes[n][p])
        /\ Len(ItemsOf(n)) = 2
        /\ \E k \in CallsOf(passes[n][p], "notify") :
               /\ Len(passes[n][p].log[k].items) = 2
               /\ passes[n][p].log[k].items[1].name = ItemsOf(n)[1]
               /\ passes[n][p].log[k].items[2].name = ItemsOf(n)[2]

\* the positions of the terms a pass has called SearchItem for, in call order
SearchedTerms(rec) == [i \in 1..Len(SearchCalls(rec)) |-> SearchCalls(rec)[i].idx]

\* the preconditions of runSearch hold for user n
Searchable(n) == Len(ItemsOf(n)) > 0 /\ ZipcodeOf(n) # ""

\* C16: a failed search does not abort the pass: a pass searches the terms
\* in configured order, each at most once, and a pass that has ended, not by
\* cancellation, has searched every term exactly once, has handed the items
\* of the successful searches to NotifyFoundItems and has returned no error.
C16_FailedSearchDoesNotAbort ==
    \A n \in Users : \A p \in PassIds(n) :
        LET rec == passes[n][p]
        IN  /\ SearchedTerms(rec) = [i \in 1..Len(SearchedTerms(rec)) |-> i]
            /\ Len(SearchedTerms(rec)) <= Len(ItemsOf(n))
            /\ (rec.pc = "done" /\ rec.ret # CtxErr /\ Searchable(n)) =>
                   /\ rec.ret = Nil
                   /\ Len(SearchedTerms(rec)) = Len(ItemsOf(n))
                   /\ Found(rec) # <<>> =>
                          \E k \in CallsOf(rec, "notify") : rec.log[k].items = Found(rec)

\* a pass over two terms has run to its end: the first search failed, the
\* second returned an item, and that item was handed to NotifyFoundItems
C16_Witness ==
    \E n \in Users : \E p \in PassIds(n) :
        /\ Completed(passes[n][p])
        /\ Len(SearchCalls(passes[n][p])) = 2
        /\ SearchCalls(passes[n][p])[1].err # Nil
        /\ SearchCalls(passes[n][p])[2].err = Nil
        /\ Found(passes[n][p]) # <<>>
        /\ \E k \in CallsOf(passes[n][p], "notify") :
               passes[n][p].log[k].items = Found(passes[n][p])

\* C17: in a pass over the terms t1..tn a wait takes place between the
\* search of ti and the search of ti+1 for every i < n, and none after tn:
\* every search but the first comes right after the wait that follows the
\* term before it, and no wait follows the last term.
C17_WaitBetweenTerms ==
    \A n \in Users : \A p \in PassIds(n) :
        LET log == passes[n][p].log
        IN  \A k \in 1..Len(log) :
                /\ (log[k].op = "search" /\ log[k].idx > 1) =>
                       /\ k > 1
                       /\ log[k - 1].op = "wait"
                       /\ log[k - 1].idx = log[k].idx - 1
                /\ log[k].op = "wait" => log[k].idx < Len(ItemsOf(n))

\* the search of the first term failed and the search of the second term
\* followed it without a wait
C17_Witness ==
    \E n \in Users : \E p \in PassIds(n) :
        /\ Len(passes[n][p].log) >= 2
        /\ passes[n][p].log[1].op = "search" /\ passes[n][p].log[1].err # Nil
        /\ passes[n][p].log[2].op = "search" /\ passes[n][p].log[2].idx = 2

\* the context of a pass has been cancelled while the pass was in a wait
\* that began with the context live
CancelledInWait(rec) ==
    /\ rec.pc \in {"wait", "woken"}
    /\ rec.log[Len(rec.log)].op = "wait"
    /\ rec.log[Len(rec.log)].err = Nil
    /\ PassCtxDone(rec.origin)

\* C18: if the cancellation fires while a pass is in the wait between two
\* terms, the next thing the pass does is to return the cancellation error:
\* it searches no later term, hands what it has found to no one and sends no
\* heartbeat; and a pass that has returned does nothing more.
C18_CancelledWaitEndsPass ==
    [][\A n \in Names : \A p \in 1..Len(passes[n]) :
          /\ (CancelledInWait(passes[n][p]) /\ ~panicked') =>
                 \/ passes'[n][p] = passes[n][p]
                 \/ /\ passes'[n][p].pc = "done"
                    /\ passes'[n][p].ret = CtxErr
                    /\ passes'[n][p].batch = passes[n][p].batch
                    /\ passes'[n][p].log =
                           Append(passes[n][p].log,
                                  Call("cancelled", passes[n][p].idx, CtxErr, <<>>))
                    /\ sent'[n] = sent[n]
                    /\ \A i \in 1..Len(sent[n]) : sent[n][i].pass # p
          /\ (passes[n][p].pc = "done" /\ ~panicked') =>
                 passes'[n][p] = passes[n][p]
      ]_vars

\* a pass that had found an item and was waiting before its next term when
\* the cancellation fired has returned the cancellation error
C18_Witness ==
    \E n \in Users : \E p \in PassIds(n) :
        LET rec == passes[n][p]
        IN  /\ rec.pc = "done" /\ rec.ret = CtxErr
            /\ rec.batch # <<>>
            /\ Len(SearchCalls(rec)) < Len(ItemsOf(n))
            /\ Len(rec.log) >= 2
            /\ rec.log[Len(rec.log) - 1].op = "wait"
            /\ rec.log[Len(rec.log) - 1].err = Nil
            /\ \A i \in 1..Len(sent[n]) : sent[n][i].pass # p

\* C19: a pass of a user with no terms or no zipcode goes from its beginning
\* straight to its end, with the configuration error: it makes no call of
\* SearchItem, NotifyFoundItems or NotifyHeartbeat and nothing is sent.
C19_PreconditionFailsAtOnce ==
    \A n \in Users : \A p \in PassIds(n) :
        ~Searchable(n) =>
            /\ passes[n][p].pc \in {"acquire", "start", "done"}
            /\ passes[n][p].log = <<>>
            /\ passes[n][p].batch = <<>>
            /\ sent[n] = <<>>
            /\ passes[n][p].pc = "done" =>
                   passes[n][p].ret =
                       IF Len(ItemsOf(n)) = 0
                       THEN "user '" \o n \o "' has no items to search for"
                       ELSE "user '" \o n \o "' has no zipcode configured"

\* the pass of a user who has a term but no zipcode has failed
C19_Witness ==
    \E n \in Users : \E p \in PassIds(n) :
        /\ Len(ItemsOf(n)) > 0 /\ ZipcodeOf(n) = ""
        /\ passes[n][p].pc = "done"
        /\ passes[n][p].ret = "user '" \o n \o "' has no zipcode configured"

\* C20: an error of NotifyFoundItems does not fail the pass: the heartbeat
\* follows it and runSearch returns nil; runSearch returns an error only for
\* a failed precondition, before any call, or for a cancelled wait.
C20_DispatchFailureIsNotFatal ==
    \A n \in Users : \A p \in PassIds(n) :
        LET rec == passes[n][p]
        IN  /\ (rec.pc = "done" /\ rec.ret = CtxErr) =>
                   rec.log[Len(rec.log)].op = "cancelled"
            /\ (rec.pc = "done" /\ rec.ret \notin {Nil, CtxErr}) =>
                   (~Searchable(n) /\ rec.log = <<>>)
            /\ \A k \in CallsOf(rec, "notify") :
                   rec.log[k].err # Nil =>
                       /\ rec.pc \in {"heartbeat", "done"}
                       /\ rec.pc = "done" =>
                              /\ rec.ret = Nil
                              /\ Len(rec.log) = k + 1
                              /\ rec.log[k + 1].op = "heartbeat"
                              /\ \A s \in SinksOf(NotifierOf(n)) :
                                     Cardinality(Heartbeats(n, p, s)) = 1

\* NotifyFoundItems has returned an error in a pass that then sent its
\* heartbeat and returned nil
C20_Witness ==
    \E n \in Users : \E p \in PassIds(n) :
        /\ Completed(passes[n][p])
        /\ \E k \in CallsOf(passes[n][p], "notify") : passes[n][p].log[k].err # Nil
        /\ \E s \in SinksOf(NotifierOf(n)) : Cardinality(Heartbeats(n, p, s)) = 1

\* the number of messages one call of NotifyFoundItems makes
MessagesOf(m, items) ==
    IF Len(items) = 0 THEN 0 ELSE IF m.condense THEN 1 ELSE Len(items)

\* C21: a send that fails on one sink keeps no message from any other sink:
\* every sink receives every message of the call exactly once, in the same
\* order and with the same subject and body as every other sink, whichever
\* sends fail; the sends to a sink that is not reachable fail, the others
\* succeed, and the call returns an error exactly when some send failed.
C21_SinkFailuresIsolated ==
    nfCalled =>
        /\ \A s \in 1..Len(nfConfigs) :
               /\ Len(nfSentTo(s)) = MessagesOf(nfManager, nfItems)
               /\ \A i \in 1..Len(nfSentTo(s)) :
                      /\ nfSentTo(s)[i].ok = nfConfigs[s].up
                      /\ \A t \in 1..Len(nfConfigs) :
                             /\ i <= Len(nfSentTo(t))
                             /\ nfSentTo(t)[i].subject = nfSentTo(s)[i].subject
                             /\ nfSentTo(t)[i].message = nfSentTo(s)[i].message
        /\ (nfOut.err # Nil) <=> (\E i \in 1..Len(nfOut.sent) : ~nfOut.sent[i].ok)

\* two messages went out; every send to the first notifier's sink failed and
\* every send to a later sink succeeded
C21_Witness ==
    /\ nfCalled
    /\ Len(nfConfigs) >= 2
    /\ nfManager.notifiers[1].sinks = <<1>>
    /\ MessagesOf(nfManager, nfItems) >= 2
    /\ Len(nfSentTo(1)) >= 2
    /\ \A i \in 1..Len(nfSentTo(1)) : ~nfSentTo(1)[i].ok
    /\ Len(nfSentTo(2)) >= 2
    /\ \A i \in 1..Len(nfSentTo(2)) : nfSentTo(2)[i].ok

(***************************************************************************)
(* Two users side by side, with no stop request and no cancellation: the   *)
(* first user's pass fails at once or may stay in any of its calls for     *)
(* ever; the second user's goroutines run and its calls return.            *)
(***************************************************************************)
Troubled == "alice"
Other == "bob"
IndepConfigs == { <<Alice, Bob>>, <<NoItems, Bob>> }

IndepInit ==
    /\ NoCall
    /\ cfgUsers \in IndepConfigs
    /\ once \in BOOLEAN
    /\ tickBudget = [n \in Names |-> MaxTicks]
    /\ newErr = NewRunner(cfgUsers).err
    /\ userRunners = NewRunner(cfgUsers).userRunners
    /\ stopBudget = 0
    /\ panicked = FALSE
    /\ Fresh

\* a step of runSearch in pass p of user n
PassStep(n, p) ==
    \/ InitialAcquire(n, p)
    \/ PassBegin(n, p)
    \/ PassSearch(n, p)
    \/ PassWaitElapsed(n, p)
    \/ PassNotify(n, p)
    \/ PassHeartbeat(n, p)

IndepNext ==
    \/ Start
    \/ RunOnce
    \/ RunOnceRecv
    \/ \E n \in Users : RunnerBegin(n)
    \/ \E n \in Users : Tick(n)
    \/ \E n \in Users : \E p \in PassIds(n) : PassStep(n, p)

\* pass p of user n can take a step: its goroutine is at a call that returns,
\* or at the send into a gate that has room
CanStep(n, p) ==
    /\ Alive
    /\ passes[n][p].pc # "done"
    /\ passes[n][p].pc = "acquire" => Gate(runningCh, n) < GateCap

\* the scheduler runs the goroutines of the second user, and the calls they
\* make return: if one of its passes can take a step for ever, one of them
\* eventually does; nothing is assumed of the first user's
IndepFairness ==
    /\ WF_vars(RunnerBegin(Other))
    /\ \/ []<>(~\E p \in PassIds(Other) : CanStep(Other, p))
       \/ []<><<\E p \in PassIds(Other) : PassStep(Other, p)>>_vars

IndepSpec == IndepInit /\ [][IndepNext]_vars /\ IndepFairness

\* C22: whatever becomes of the first user's passes, whether they fail or
\* stay in a call for ever, every pass the second user starts, the initial
\* one, one started by a tick or one of RunOnce, eventually runs to its end
\* without error, having sent one heartbeat to each of the user's sinks:
\* again and again, all the passes the second user has started are complete.
C22_OtherUserCompletes ==
    []<>(\A p \in PassIds(Other) :
            /\ Completed(passes[Other][p])
            /\ \A s \in SinksOf(NotifierOf(Other)) :
                   Cardinality(Heartbeats(Other, p, s)) = 1)

\* the first user's only pass is still in its first search, or has failed,
\* while the second user's initial pass and a pass one of its ticks started
\* have run to their ends, the latter having found an item and announced it
C22_Witness ==
    /\ Len(passes[Troubled]) = 1
    /\ \/ passes[Troubled][1].pc = "search" /\ passes[Troubled][1].log = <<>>
       \/ passes[Troubled][1].pc = "done" /\ passes[Troubled][1].ret # Nil
    /\ Len(passes[Other]) = 2
    /\ passes[Other][2].origin = "tick"
    /\ \A p \in 1..2 :
           /\ Completed(passes[Other][p])
           /\ \A s \in SinksOf(NotifierOf(Other)) :
                  Cardinality(Heartbeats(Other, p, s)) = 1
    /\ \E i \in 1..Len(sent[Other]) :
           sent[Other][i].pass = 2 /\ sent[Other][i].subject # HeartbeatSubject

\* a pass that has ended with something gone wrong: runSearch returned an
\* error, or a search or a dispatch of the pass failed
Failed(rec) ==
    /\ rec.pc = "done"
    /\ \/ rec.ret # Nil
       \/ \E k \in 1..Len(rec.log) : rec.log[k].err # Nil

\* C23: failures never stop the scheduler: a user runner leaves the loop of
\* start only when its stop channel is closed or its context is cancelled
\* (or the process dies), whatever its passes have returned; and every tick
\* that finds the gate free takes the gate and starts a new pass, whatever
\* became of the passes before it.
C23_FailuresNeverStopScheduler ==
    [][\A n \in Names :
          /\ (urPC[n] = "loop" /\ urPC'[n] # "loop")
                 => (panicked' \/ urStopChan[n] = "closed" \/ StartCtxDone)
          /\ (ticks'[n] = ticks[n] + 1 /\ runningCh[n] = 0)
                 => /\ runningCh'[n] = 1
                    /\ passes'[n] = Append(passes[n], Pass("tick", "start"))]_vars

\* the initial pass has failed and returned, the runner is still in its
\* loop, and a tick after that has started a second pass
C23_Witness ==
    \E n \in Users :
        /\ urPC[n] = "loop"
        /\ Len(passes[n]) = 2
        /\ Failed(passes[n][1])
        /\ passes[n][1].ret # CtxErr
        /\ passes[n][2].origin = "tick"
        /\ passes[n][2].pc = "start"
        /\ tickLog[n] = <<TRUE>>

\* C24: for every configuration NewRunner accepts there is exactly one user
\* runner per user configuration: GetUserCount() is the number of user
\* configurations supplied and HasUser(name) is true of every supplied name.
C24_OneRunnerPerConfig ==
    newErr = Nil =>
        /\ GetUserCount = Len(cfgUsers)
        /\ \A i \in 1..Len(cfgUsers) : HasUser(cfgUsers[i].name)

\* NewRunner has accepted two user configurations, each with items and a
\* zipcode, that bear the same name; there is one user runner, built from the
\* second, and its pass has searched the second's terms only
C24_Witness ==
    /\ newErr = Nil
    /\ Len(cfgUsers) = 2
    /\ \A i \in 1..2 : cfgUsers[i].items # <<>> /\ cfgUsers[i].zipcode # ""
    /\ cfgUsers[1].name = cfgUsers[2].name
    /\ cfgUsers[1].items # cfgUsers[2].items
    /\ GetUserCount = 1
    /\ \E n \in Users :
           /\ ItemsOf(n) = cfgUsers[2].items
           /\ \E p \in PassIds(n) : Completed(passes[n][p])

\* C25: NewRunner on a configuration without users returns the error "no
\* users configured" and no runner: no user runner exists and neither Start
\* nor RunOnce is ever called; the error is returned in that case only.
C25_NoUsersRejected ==
    /\ Len(cfgUsers) = 0 =>
           /\ newErr = ErrNoUsers
           /\ newErr = "no users configured"
           /\ GetUserCount = 0
           /\ srPC = "idle" /\ roPC = "idle"
           /\ srResult = "none" /\ roResult = "none"
    /\ newErr = ErrNoUsers => Len(cfgUsers) = 0

\* NewRunner was handed no user and has returned its error
C25_Witness == cfgUsers = <<>> /\ newErr = ErrNoUsers /\ userRunners = <<>>

C27_IntrospectionIsConstant ==
    [][/\ userRunners' = userRunners
       /\ GetUserCount' = GetUserCount
       /\ \A name \in Names \cup {"carol"} : HasUser(name)' = HasUser(name)]_vars

\* Start has run two user runners, Stop was called and Start has returned;
\* both users are still there
C27_Witness ==
    /\ srPC = "done"
    /\ stopCalls = 1
    /\ \A n \in Names : urPC[n] = "exited"
    /\ GetUserCount = 2
    /\ HasUser("alice") /\ HasUser("bob") /\ ~HasUser("carol")

(***************************************************************************)
(* GetConfig called directly: on an environment and a YAML file.           *)
(***************************************************************************)
\* the environments and the files drawn
Environments ==
    [interval : {"", "6h", "24h"}, verbose : {"", "true", "false"},
     distance : {"", "5", "15"}]
YamlFiles == [interval : {0, 6, 24}, verbose : BOOLEAN, distance : {0, 5, 15}]

ConfigInit ==
    /\ gcEnv \in Environments
    /\ gcYaml \in YamlFiles
    /\ gcCalled = FALSE
    /\ gcOut = NoYaml
    /\ nfConfigs = <<>>
    /\ nfItems = <<>>
    /\ nfCalled = FALSE
    /\ nfOut = [sent |-> <<>>, err |-> Nil]
    /\ cfgUsers = <<>>
    /\ once = FALSE
    /\ tickBudget = TicksFor(<<>>)
    /\ newErr = NewRunner(<<>>).err
    /\ userRunners = NewRunner(<<>>).userRunners
    /\ stopBudget = 0
    /\ panicked = FALSE
    /\ Fresh

\* config.GetConfig()
CallGetConfig ==
    /\ ~gcCalled
    /\ gcCalled' = TRUE
    /\ gcOut' = GetConfig(gcEnv, gcYaml)
    /\ UNCHANGED <<gcEnv, gcYaml, nfConfigs, nfItems, nfCalled, nfOut, cfgVars, envVars,
                   srVars, roVars, urVars, runningCh, passes, sent>>

ConfigSpec == ConfigInit /\ [][CallGetConfig]_vars

\* C28: the interval, the distance and verbose are resolved by priority: the
\* value of the environment variable if it is set, else the value the YAML
\* file gives if it gives one, else the default.
C28_EnvThenYamlThenDefault ==
    gcCalled =>
        /\ gcOut.interval =
               (IF gcEnv.interval # "" THEN ParseDuration(gcEnv.interval)
                ELSE IF gcYaml.interval # 0 THEN gcYaml.interval
                ELSE DefaultInterval)
        /\ gcOut.distance =
               (IF gcEnv.distance # "" THEN Atoi(gcEnv.distance)
                ELSE IF gcYaml.distance # 0 THEN gcYaml.distance
                ELSE DefaultDistance)
        /\ gcOut.verbose =
               (IF gcEnv.verbose # "" THEN ParseBool(gcEnv.verbose)
                ELSE gcYaml.verbose)

\* the file says interval: 6h and distance: 15, the environment sets neither
\* variable, and GetConfig has returned the defaults of 12 hours and 10
C28_Witness ==
    /\ gcCalled
    /\ gcEnv.interval = "" /\ gcEnv.distance = ""
    /\ gcYaml.interval = 6 /\ gcYaml.distance = 15
    /\ gcOut.interval = 12 /\ gcOut.distance = 10

\* C29: Start leaves its select, and so returns, only after Stop has been
\* called or the context it was handed has been cancelled, whatever the
\* passes of the user runners have returned.
C29_StartReturnsOnlyOnRequest ==
    srPC \in {"wait", "done"} => (srStopChan = "closed" \/ parentDone)

\* every user's initial pass had failed with an error of its own before Stop
\* was called; Start has then returned nil, the context never cancelled
C29_Witness ==
    /\ srPC = "done" /\ srResult = Nil
    /\ stopCalls = 1 /\ ~parentDone
    /\ userCount = 2
    /\ \A n \in Users :
           /\ Len(passes[n]) = 1
           /\ passes[n][1].pc = "done"
           /\ passes[n][1].ret \notin {Nil, CtxErr}

\* C30: once Start has cancelled the context of the passes on a stop
\* request, a pass that is in the wait between two terms, or reaches that
\* wait later, does nothing there but return the cancellation error: it
\* searches no further term and sends neither found items nor a heartbeat.
C30_StopAbortsAtWait ==
    [][\A n \in Names : \A p \in 1..Len(passes[n]) :
          (/\ passes[n][p].origin # "once"
           /\ passes[n][p].pc \in {"wait", "woken"}
           /\ srStopChan = "closed" /\ srCtxDone /\ ~parentDone
           /\ ~panicked') =>
              \/ passes'[n][p] = passes[n][p]
              \/ /\ passes'[n][p].pc = "done"
                 /\ passes'[n][p].ret = CtxErr
                 /\ passes'[n][p].batch = passes[n][p].batch
                 /\ sent'[n] = sent[n]
                 /\ \A i \in 1..Len(sent[n]) : sent[n][i].pass # p
      ]_vars

\* Stop was called and Start cancelled the context while a pass was in its
\* first search; the pass then began its wait, the wait's timer won the
\* select, and the pass searched the next term and ran to its end, heartbeat
\* sent; the caller's context was never cancelled
C30_Witness ==
    \E n \in Users : \E p \in PassIds(n) :
        LET rec == passes[n][p]
        IN  /\ rec.origin # "once"
            /\ stopCalls = 1 /\ srCtxDone /\ ~parentDone
            /\ Completed(rec)
            /\ \E k \in 1..(Len(rec.log) - 1) :
                   /\ rec.log[k].op = "wait"
                   /\ rec.log[k].err = CtxErr
                   /\ rec.log[k + 1].op = "search"
            /\ \E i \in 1..Len(sent[n]) :
                   sent[n][i].pass = p /\ sent[n][i].subject = HeartbeatSubject

\* C31: when the cancellation signal fires while RunOnce is blocked waiting for
\* reports, RunOnce returns next, and what it returns is the cancellation error
C31_RunOnceReturnsCtxErr ==
    [][roPC = "woken" =>
          \/ roPC' = "woken"
          \/ roPC' = "done" /\ roResult' = CtxErr /\ roCompleted' = roCompleted
          \/ panicked']_vars

\* RunOnce has returned the cancellation error with a report still outstanding
C31_Witness ==
    /\ once /\ parentDone
    /\ roPC = "done" /\ roResult = CtxErr
    /\ roCompleted < userCount
    /\ roErrChan = <<>>
\* C32: a user runner's start has returned only with nil or with the context's
\* error; nil only when its stop channel has been closed, the context's error
\* only when the context it was handed is cancelled
C32_RunnerReturnCauses ==
    \A n \in Users :
        /\ urPC[n] = "exited" <=> urRet[n] # "none"
        /\ urRet[n] \in {"none", Nil, CtxErr}
        /\ urRet[n] = Nil => urStopChan[n] = "closed"
        /\ urRet[n] = CtxErr => StartCtxDone

\* one runner has returned nil on its stop channel, another the context's error
C32_Witness ==
    \E n, m \in Users :
        /\ urPC[n] = "exited" /\ urRet[n] = Nil /\ urStopChan[n] = "closed"
        /\ urPC[m] = "exited" /\ urRet[m] = CtxErr
        /\ \E p \in PassIds(n) : passes[n][p].ret \notin {Nil, "none", CtxErr}
\* C33: NotifyFoundItems returns an error exactly when a send of the call
\* failed, also when the sends after the failed one succeeded, and a failure
\* cuts nothing short: the call makes every message's send to every sink
C33_ErrorIffSomeSendFailed ==
    nfCalled =>
        /\ nfOut.err \in {Nil, ErrSend}
        /\ nfOut.err = ErrSend <=> \E i \in 1..Len(nfOut.sent) : ~nfOut.sent[i].ok
        /\ Len(nfOut.sent) = MessagesOf(nfManager, nfItems) * Len(nfConfigs)

\* item by item, the first send of each item failed and the last send of the
\* call succeeded, and the call returned the error
C33_Witness ==
    /\ nfCalled
    /\ ~nfManager.condense
    /\ Len(nfItems) >= 2
    /\ Len(nfOut.sent) >= 4
    /\ ~nfOut.sent[1].ok
    /\ nfOut.sent[Len(nfOut.sent)].ok
    /\ nfOut.err = ErrSend
\* C34: allFoundItems of a pass holds the items its own SearchItem calls have
\* returned and nothing else: it is empty until the pass has found something,
\* whatever the earlier passes of the user and the passes of other users found
C34_BatchOwnedByPass ==
    \A n \in Users : \A p \in PassIds(n) :
        /\ passes[n][p].batch = Found(passes[n][p])
        /\ passes[n][p].pc \in {"acquire", "start"} => passes[n][p].batch = <<>>

\* a user's first pass found an item; its later pass and another user's pass
\* have searched, found nothing, and hold an empty batch
C34_Witness ==
    \E n, m \in Users :
        /\ n # m
        /\ Len(passes[n]) >= 2
        /\ passes[n][1].pc = "done" /\ passes[n][1].batch # <<>>
        /\ passes[n][2].pc = "heartbeat" /\ passes[n][2].batch = <<>>
        /\ \E q \in PassIds(m) :
               passes[m][q].pc = "heartbeat" /\ passes[m][q].batch = <<>>
(***************************************************************************)
(* Start and RunOnce on one SearchRunner: a caller holding the runner      *)
(* calls RunOnce while Start is running in another goroutine.              *)
(***************************************************************************)
MixedInit == InitWith({ <<Alice>>, <<Bob>>, <<Alice1, Bob>> }, 0) /\ ~once

\* r.RunOnce(ctx) while r.Start(ctx) is running: one goroutine per user calls
\* runner.runOnce, which is runSearch and no more
RunOnceDuringStart ==
    /\ Alive
    /\ srPC = "select"
    /\ roPC = "idle"
    /\ roPC' = "wait"
    /\ passes' = [n \in Names |->
                     IF n \in Users THEN Append(passes[n], Pass("once", "start"))
                     ELSE passes[n]]
    /\ UNCHANGED <<callVars, cfgVars, envVars, srVars, roErrChan, roCompleted, lastErr,
                   roResult, roReceived, urVars, runningCh, sent>>

MixedNext ==
    \/ Start
    \/ RunOnceDuringStart
    \/ RunOnceRecv
    \/ \E n \in Users : RunnerBegin(n)
    \/ \E n \in Users : Tick(n)
    \/ \E n \in Users : \E p \in PassIds(n) : PassStep(n, p)

MixedSpec == MixedInit /\ [][MixedNext]_vars

\* C35: for each user at most one SearchItem call is in flight at any time,
\* also when RunOnce is called on a SearchRunner whose Start is running: the
\* passes of RunOnce wait for the gate as the passes of start do
C35_OneSearchInFlightWithRunOnce ==
    \A n \in Users :
        Cardinality({ p \in PassIds(n) : passes[n][p].pc = "search" }) <= 1

\* a pass of RunOnce and a pass of start are both in SearchItem for one user,
\* the latter holding the one token of the gate
C35_Witness ==
    \E n \in Users : \E p, q \in PassIds(n) :
        /\ passes[n][p].origin = "once" /\ passes[n][p].pc = "search"
        /\ passes[n][q].origin # "once" /\ passes[n][q].pc = "search"
        /\ runningCh[n] = GateCap
\* C36: once Start has returned without the timeout error no pass of any user
\* is in flight, and from then on no pass takes a step: no SearchItem call
\* returns or is made, and nothing is sent
C36_QuietAfterStartReturns ==
    [][(srPC = "done" /\ srResult # ErrTimeout /\ ~panicked') =>
           /\ \A n \in Users : InFlight(n) = {}
           /\ passes' = passes
           /\ sent' = sent]_vars

\* Start has returned nil after a stop request, within the shutdown timeout;
\* a pass that was in SearchItem when it returned has since found an item and
\* sent its notification and its heartbeat
C36_Witness ==
    /\ srPC = "done" /\ srResult = Nil /\ srStopChan = "closed" /\ ~parentDone
    /\ \A n \in Users : urPC[n] = "exited" /\ urRet[n] = Nil
    /\ \E n \in Users : \E p \in PassIds(n) :
           /\ Completed(passes[n][p])
           /\ passes[n][p].batch # <<>>
           /\ \E i \in 1..Len(sent[n]) : sent[n][i].pass = p /\ sent[n][i].ok
           /\ Len(passes[n][p].log) >= 3
\* C37: the initial pass of a runner is the first of its passes to hold the
\* gate: whenever a tick has been admitted, the initial goroutine's send into
\* runningCh has already gone through
C37_InitialPassHoldsGateFirst ==
    \A n \in Users : \A p \in PassIds(n) :
        passes[n][p].origin = "tick" =>
            \E q \in PassIds(n) :
                passes[n][q].origin = "initial" /\ passes[n][q].pc # "acquire"

\* a tick's pass has run to its end and released the gate while the initial
\* goroutine is still at its send into runningCh
C37_Witness ==
    \E n \in Users : \E p, q \in PassIds(n) :
        /\ passes[n][p].origin = "tick" /\ Completed(passes[n][p])
        /\ passes[n][q].origin = "initial" /\ passes[n][q].pc = "acquire"
        /\ runningCh[n] = 0
        /\ tickLog[n] = <<TRUE>>
\* C38: a pass of start gives its token back in the step in which runSearch
\* returns, whatever it returns, and a tick is skipped exactly when a pass of
\* its runner is admitted or in flight at that moment: a pass that has ended
\* makes no tick skip
C38_GateReleasedOnEveryEnding ==
    [][~panicked' =>
          \A n \in Users :
              /\ \A p \in PassIds(n) :
                     (passes[n][p].origin # "once" /\ passes[n][p].pc # "done"
                          /\ passes'[n][p].pc = "done") =>
                         /\ passes[n][p].pc # "acquire" \/ runningCh[n] = 0
                         /\ runningCh'[n] = Cardinality(InFlight(n) \ {p})
              /\ ticks'[n] = ticks[n] + 1 =>
                     (Len(passes'[n]) = Len(passes[n]) <=> InFlight(n) # {})]_vars

\* the initial pass was aborted by the cancellation and the tick that came
\* after it has been admitted; its pass holds the gate
C38_Witness ==
    \E n \in Users : \E p, q \in PassIds(n) :
        /\ passes[n][p].origin = "initial" /\ passes[n][p].pc = "done"
        /\ passes[n][p].ret = CtxErr
        /\ passes[n][q].origin = "tick" /\ passes[n][q].pc # "done"
        /\ tickLog[n] = <<TRUE>>
        /\ runningCh[n] = GateCap
\* the goroutines of RunOnce that have reported
OnceReported == { n \in Users : \E p \in PassIds(n) :
                      passes[n][p].origin = "once" /\ passes[n][p].pc = "done" }

\* C39: every goroutine of Start and of RunOnce reports exactly once, and one
\* that has yet to report finds room in the result channel, whether or not
\* Start or RunOnce is still receiving
C39_ReportsNeverBlock ==
    /\ Len(errChan) + completedUsers = Cardinality({ n \in Users : urPC[n] = "exited" })
    /\ Len(roErrChan) + roCompleted = Cardinality(OnceReported)
    /\ (\E n \in Users : urPC[n] \in {"spawned", "loop"}) => Len(errChan) < ErrChanCap
    /\ \A n \in Users :
           /\ Cardinality({ p \in PassIds(n) : passes[n][p].origin = "once" }) <= 1
           /\ \A p \in PassIds(n) :
                  (passes[n][p].origin = "once" /\ passes[n][p].pc # "done")
                      => Len(roErrChan) < ErrChanCap

\* Start has returned the timeout error having received one report of two;
\* the other runner has returned since, and its report is in the channel
C39_Witness ==
    /\ srPC = "done" /\ srResult = ErrTimeout
    /\ userCount = 2 /\ completedUsers = 1
    /\ \A n \in Users : urPC[n] = "exited"
    /\ Len(errChan) = 1
====
